---- MODULE Spec2Model ----
(***************************************************************************)
(* Model of src/HotelManagement.py: the Room state machine, the            *)
(* Reservation object and the HotelManagementSystem coordinator            *)
(* (book_room, cancel_reservation, check_in, check_out), called by a       *)
(* bounded number of threads.                                              *)
(*                                                                         *)
(* A coordinator call is split at the statements of its `with self.lock`   *)
(* body; the per-room and per-reservation locks are taken and released     *)
(* inside one statement (Room.book, Room.check_in, Room.check_out,         *)
(* Reservation.cancel), which is therefore one step.                       *)
(*                                                                         *)
(* The source annotates parameters with `date` without importing it; the   *)
(* model takes datetime.date to be in scope, so that the module loads.     *)
(* Dates are day numbers, and their difference is `.days`.                 *)
(***************************************************************************)
EXTENDS Integers, Sequences, FiniteSets, TLC

\* ---------------------------------------------------------------- bounds
NThreads == 2      \* threads calling the coordinator
NRooms == 1        \* Room objects of the pool
MaxRes == 2        \* reservation identities that can be issued in one run
MaxDay == 2        \* dates are the days 1..MaxDay
BasePrice == 100   \* Room r costs BasePrice * r per night

Threads == 1..NThreads
Rooms == 1..NRooms
ResIds == 1..MaxRes
Dates == 1..MaxDay
Guests == {"g1"}

\* Room.price, set by Room.__init__ (a constructor argument).
price(r) == BasePrice * r

\* ------------------------------------------------------------- the state
VARIABLES
    instance,           \* HotelManagementSystem._instance: "None" or the object
    attributes,         \* attributes[o]: the attributes assigned to object o so far
    guests,             \* HotelManagementSystem.guests: guest id -> Guest
    rooms,              \* HotelManagementSystem.rooms: room id -> Room
    status,             \* status[r]: Room.status of Room r
    reservations,       \* HotelManagementSystem.reservations: id -> Reservation
    lock,               \* HotelManagementSystem.lock: the holding thread, or 0
    reservation_lock,   \* reservation_lock[id]: holder of Reservation.lock, or 0
    room_lock,          \* room_lock[r]: holder of Room.lock of Room r, or 0
    issued,             \* the ids _generate_reservation_id has returned so far
    arrived,            \* history: indexed ids whose check_in call succeeded
    lastPaymentFailed,  \* history, kept under SpecH only: the id of the check_out
                        \* that failed payment, if that was the last coordinator
                        \* call to finish; else 0
    pc,                 \* pc[t]: the statement thread t executes next
    call,               \* call[t]: the call thread t is in, with its arguments
    pre,                \* pre[t]: rooms and index when thread t entered its call
    paid,               \* paid[t]: the amounts t passed to process_payment in this call
    result              \* result[t]: what the call of t returns or raises

vars == <<instance, attributes, guests, rooms, status, reservations, lock,
          reservation_lock, room_lock, issued, arrived,
          lastPaymentFailed, pc, call, pre, paid, result>>

\* the singleton and its two registries, which no coordinator call writes
registry == <<instance, guests, rooms>>

\* the attributes __new__ gives the instance (lines 171-174)
AttrNames == {"guests", "rooms", "reservations", "lock"}

\* the locks of the Reservation and Room objects, and the attributes of the
\* coordinator objects
inner == <<reservation_lock, room_lock, attributes>>

NoErr == "no error"
NoCall == [op |-> "none", guest |-> "none", room |-> 0, check_in_date |-> 0,
           check_out_date |-> 0, reservation_id |-> 0, payment |-> FALSE]
NoPre == [status |-> <<>>, reservations |-> <<>>, arrived |-> {}]
NoResult == "pending"

\* ------------------------------------------------------------ class Room
\* Room.book: AVAILABLE -> BOOKED, else ValueError.
\* A Room.book that does not look at the status.
Room_book_unguarded(s) ==
    [status |-> "BOOKED", err |-> NoErr]

Room_book(s) ==
    IF s = "AVAILABLE"
    THEN [status |-> "BOOKED", err |-> NoErr]
    ELSE [status |-> s, err |-> "Room is not available for booking."]

\* A Room.check_in that does not look at the status.
Room_check_in_unguarded(s) ==
    [status |-> "OCCUPIED", err |-> NoErr]

\* Room.check_in: BOOKED -> OCCUPIED, else ValueError.
Room_check_in(s) ==
    IF s = "BOOKED"
    THEN [status |-> "OCCUPIED", err |-> NoErr]
    ELSE [status |-> s, err |-> "Room is not booked."]

\* A Room.check_out that releases a BOOKED room and rejects an OCCUPIED one.
Room_check_out_from_booked(s) ==
    IF s = "BOOKED"
    THEN [status |-> "AVAILABLE", err |-> NoErr]
    ELSE [status |-> s, err |-> "Room is not occupied."]

\* Room.check_out: OCCUPIED -> AVAILABLE, else ValueError.
Room_check_out(s) ==
    IF s = "OCCUPIED"
    THEN [status |-> "AVAILABLE", err |-> NoErr]
    ELSE [status |-> s, err |-> "Room is not occupied."]

\* ----------------------------------------------------- class Reservation
\* Reservation.__init__: no check of the dates, status CONFIRMED.
Reservation(g, r, ci, co) ==
    [guest |-> g, room |-> r, check_in_date |-> ci, check_out_date |-> co,
     status |-> "CONFIRMED"]

\* Reservation.cancel on a reservation of status rs whose room has status s:
\* the status is set before room.check_out() is tried, and stays set when
\* that raises.
Reservation_cancel(rs, s) ==
    IF rs = "CONFIRMED"
    THEN LET co == Room_check_out(s)
         IN [status |-> "CANCELLED", room |-> co.status, err |-> co.err]
    ELSE [status |-> rs, room |-> s, err |-> "Reservation is not confirmed."]

\* ------------------------------------------- class HotelManagementSystem
\* dict operations on HotelManagementSystem.reservations
Put(d, k, v) == [x \in (DOMAIN d) \cup {k} |-> IF x = k THEN v ELSE d[x]]
Del(d, k) == [x \in (DOMAIN d) \ {k} |-> d[x]]

\* _generate_reservation_id: "RES" + 8 hex digits of a uuid4; the model takes
\* a uuid to be an identity that was not issued before.
generate_reservation_id == ResIds \ issued

\* nights and amount of check_out
nights(res) == res.check_out_date - res.check_in_date
amount_doubled(res) == price(res.room) * nights(res) * 2
amount(res) == price(res.room) * nights(res)

Snapshot == [status |-> status, reservations |-> reservations, arrived |-> arrived]

Enter(t, c, first) ==
    /\ lock' = t
    /\ pc' = [pc EXCEPT ![t] = first]
    /\ call' = [call EXCEPT ![t] = c]
    /\ pre' = [pre EXCEPT ![t] = Snapshot]
    /\ paid' = [paid EXCEPT ![t] = <<>>]
    /\ result' = [result EXCEPT ![t] = NoResult]
    /\ UNCHANGED <<status, reservations, issued, arrived, lastPaymentFailed>>
    /\ UNCHANGED registry
    /\ UNCHANGED inner

\* the call ends: its `with` block is left with a value or an exception
Leave(t, r) ==
    /\ pc' = [pc EXCEPT ![t] = "unlock"]
    /\ result' = [result EXCEPT ![t] = r]
    /\ UNCHANGED registry
    /\ UNCHANGED inner

Goto(t, next) ==
    /\ pc' = [pc EXCEPT ![t] = next]
    /\ UNCHANGED result
    /\ UNCHANGED registry
    /\ UNCHANGED inner

\* ---- book_room
book_room_call_nolock(t, g, r, ci, co) ==
    /\ pc[t] = "idle"
    /\ Cardinality(issued) < MaxRes
    /\ Enter(t, [NoCall EXCEPT !.op = "book_room", !.guest = g, !.room = r,
                               !.check_in_date = ci, !.check_out_date = co],
             "book_room_check")

book_room_call(t, g, r, ci, co) ==
    /\ pc[t] = "idle"
    /\ lock = 0
    /\ Cardinality(issued) < MaxRes
    /\ Enter(t, [NoCall EXCEPT !.op = "book_room", !.guest = g, !.room = r,
                               !.check_in_date = ci, !.check_out_date = co],
             "book_room_check")

book_room_check_always(t) ==
    /\ pc[t] = "book_room_check"
    /\ Goto(t, "book_room_book")
    /\ UNCHANGED <<status, reservations, lock, issued, arrived, lastPaymentFailed,
                   call, pre, paid>>

book_room_check(t) ==
    /\ pc[t] = "book_room_check"
    /\ IF status[call[t].room] = "AVAILABLE"
       THEN Goto(t, "book_room_book")
       ELSE Leave(t, "None")
    /\ UNCHANGED <<status, reservations, lock, issued, arrived, lastPaymentFailed,
                   call, pre, paid>>

book_room_book(t) ==
    /\ pc[t] = "book_room_book"
    /\ LET r == call[t].room
           b == Room_book(status[r])
       IN /\ status' = [status EXCEPT ![r] = b.status]
          /\ IF b.err = NoErr THEN Goto(t, "book_room_index") ELSE Leave(t, b.err)
    /\ UNCHANGED <<reservations, lock, issued, arrived, lastPaymentFailed,
                   call, pre, paid>>

book_room_index(t) ==
    /\ pc[t] = "book_room_index"
    /\ \E id \in generate_reservation_id :
          /\ issued' = issued \cup {id}
          /\ reservations' = Put(reservations, id,
                 Reservation(call[t].guest, call[t].room,
                             call[t].check_in_date, call[t].check_out_date))
          /\ call' = [call EXCEPT ![t].reservation_id = id]
    /\ Leave(t, "Reservation")
    /\ UNCHANGED <<status, lock, arrived, lastPaymentFailed, pre, paid>>

\* lines 195-198 with the identity as line 234 computes it: RES and the first 8
\* hex digits of a random uuid4, any value of the identity space, with no test
\* against the identities already issued or indexed
uuid4_hex8 == ResIds

book_room_index_random(t) ==
    /\ pc[t] = "book_room_index"
    /\ \E id \in uuid4_hex8 :
          /\ issued' = issued \cup {id}
          /\ reservations' = Put(reservations, id,
                 Reservation(call[t].guest, call[t].room,
                             call[t].check_in_date, call[t].check_out_date))
          /\ call' = [call EXCEPT ![t].reservation_id = id]
    /\ Leave(t, "Reservation")
    /\ UNCHANGED <<status, lock, arrived, lastPaymentFailed, pre, paid>>

\* ---- cancel_reservation
cancel_reservation_call_nolock(t, rid) ==
    /\ pc[t] = "idle"
    /\ Enter(t, [NoCall EXCEPT !.op = "cancel_reservation", !.reservation_id = rid],
             "cancel_get")

cancel_reservation_call(t, rid) ==
    /\ pc[t] = "idle"
    /\ lock = 0
    /\ Enter(t, [NoCall EXCEPT !.op = "cancel_reservation", !.reservation_id = rid],
             "cancel_get")

cancel_get(t) ==
    /\ pc[t] = "cancel_get"
    /\ IF call[t].reservation_id \in DOMAIN reservations
       THEN Goto(t, "cancel_cancel")
       ELSE Leave(t, "None")
    /\ UNCHANGED <<status, reservations, lock, issued, arrived, lastPaymentFailed,
                   call, pre, paid>>

cancel_cancel(t) ==
    /\ pc[t] = "cancel_cancel"
    /\ LET rid == call[t].reservation_id
           res == reservations[rid]
           c == Reservation_cancel(res.status, status[res.room])
       IN /\ reservations' = [reservations EXCEPT ![rid].status = c.status]
          /\ status' = [status EXCEPT ![res.room] = c.room]
          /\ IF c.err = NoErr THEN Goto(t, "cancel_del") ELSE Leave(t, c.err)
    /\ UNCHANGED <<lock, issued, arrived, lastPaymentFailed, call, pre, paid>>

\* a cancel_reservation that leaves out line 206
cancel_del_forgotten(t) ==
    /\ pc[t] = "cancel_del"
    /\ Leave(t, "None")
    /\ UNCHANGED <<reservations, arrived, status, lock, issued, lastPaymentFailed,
                   call, pre, paid>>

cancel_del(t) ==
    /\ pc[t] = "cancel_del"
    /\ reservations' = Del(reservations, call[t].reservation_id)
    /\ arrived' = arrived \ {call[t].reservation_id}
    /\ Leave(t, "None")
    /\ UNCHANGED <<status, lock, issued, lastPaymentFailed, call, pre, paid>>

\* ---- check_in
check_in_call_nolock(t, rid) ==
    /\ pc[t] = "idle"
    /\ Enter(t, [NoCall EXCEPT !.op = "check_in", !.reservation_id = rid],
             "check_in_get")

check_in_call(t, rid) ==
    /\ pc[t] = "idle"
    /\ lock = 0
    /\ Enter(t, [NoCall EXCEPT !.op = "check_in", !.reservation_id = rid],
             "check_in_get")

\* a check_in that looks the reservation up and does not test its status
check_in_get_anystatus(t) ==
    /\ pc[t] = "check_in_get"
    /\ IF call[t].reservation_id \in DOMAIN reservations
       THEN Goto(t, "check_in_room")
       ELSE Leave(t, "Invalid reservation or reservation not confirmed.")
    /\ UNCHANGED <<status, reservations, lock, issued, arrived, lastPaymentFailed,
                   call, pre, paid>>

check_in_get(t) ==
    /\ pc[t] = "check_in_get"
    /\ LET rid == call[t].reservation_id
       IN IF rid \in DOMAIN reservations /\ reservations[rid].status = "CONFIRMED"
          THEN Goto(t, "check_in_room")
          ELSE Leave(t, "Invalid reservation or reservation not confirmed.")
    /\ UNCHANGED <<status, reservations, lock, issued, arrived, lastPaymentFailed,
                   call, pre, paid>>

check_in_room(t) ==
    /\ pc[t] = "check_in_room"
    /\ LET rid == call[t].reservation_id
           r == reservations[rid].room
           c == Room_check_in(status[r])
       IN /\ status' = [status EXCEPT ![r] = c.status]
          /\ arrived' = IF c.err = NoErr THEN arrived \cup {rid} ELSE arrived
          /\ Leave(t, IF c.err = NoErr THEN "None" ELSE c.err)
    /\ UNCHANGED <<reservations, lock, issued, lastPaymentFailed, call, pre, paid>>

\* ---- check_out
check_out_call_nolock(t, rid, p) ==
    /\ pc[t] = "idle"
    /\ Enter(t, [NoCall EXCEPT !.op = "check_out", !.reservation_id = rid,
                               !.payment = p],
             "check_out_get")

check_out_call(t, rid, p) ==
    /\ pc[t] = "idle"
    /\ lock = 0
    /\ Enter(t, [NoCall EXCEPT !.op = "check_out", !.reservation_id = rid,
                               !.payment = p],
             "check_out_get")

\* a check_out that looks the reservation up and does not test its status
check_out_get_anystatus(t) ==
    /\ pc[t] = "check_out_get"
    /\ IF call[t].reservation_id \in DOMAIN reservations
       THEN Goto(t, "check_out_pay")
       ELSE Leave(t, "Invalid reservation or reservation not confirmed.")
    /\ UNCHANGED <<status, reservations, lock, issued, arrived, lastPaymentFailed,
                   call, pre, paid>>

check_out_get(t) ==
    /\ pc[t] = "check_out_get"
    /\ LET rid == call[t].reservation_id
       IN IF rid \in DOMAIN reservations /\ reservations[rid].status = "CONFIRMED"
          THEN Goto(t, "check_out_pay")
          ELSE Leave(t, "Invalid reservation or reservation not confirmed.")
    /\ UNCHANGED <<status, reservations, lock, issued, arrived, lastPaymentFailed,
                   call, pre, paid>>

\* payment.process_payment(amount) returns call[t].payment
check_out_pay(t) ==
    /\ pc[t] = "check_out_pay"
    /\ paid' = [paid EXCEPT ![t] = Append(@, amount(reservations[call[t].reservation_id]))]
    /\ IF call[t].payment
       THEN Goto(t, "check_out_room")
       ELSE Leave(t, "Payment failed.")
    /\ UNCHANGED <<status, reservations, lock, issued, arrived, lastPaymentFailed,
                   call, pre>>

check_out_room(t) ==
    /\ pc[t] = "check_out_room"
    /\ LET r == reservations[call[t].reservation_id].room
           c == Room_check_out(status[r])
       IN /\ status' = [status EXCEPT ![r] = c.status]
          /\ IF c.err = NoErr THEN Goto(t, "check_out_del") ELSE Leave(t, c.err)
    /\ UNCHANGED <<reservations, lock, issued, arrived, lastPaymentFailed,
                   call, pre, paid>>

check_out_del_forgotten(t) ==
    /\ pc[t] = "check_out_del"
    /\ Leave(t, "None")
    /\ UNCHANGED <<reservations, arrived, status, lock, issued, lastPaymentFailed,
                   call, pre, paid>>

check_out_del(t) ==
    /\ pc[t] = "check_out_del"
    /\ reservations' = Del(reservations, call[t].reservation_id)
    /\ arrived' = arrived \ {call[t].reservation_id}
    /\ Leave(t, "None")
    /\ UNCHANGED <<status, lock, issued, lastPaymentFailed, call, pre, paid>>

\* ---- leaving `with self.lock`: the lock is released, the caller gets the result
Unlock(t) ==
    /\ pc[t] = "unlock"
    /\ lock' = 0
    /\ pc' = [pc EXCEPT ![t] = "idle"]
    /\ call' = [call EXCEPT ![t] = NoCall]
    /\ pre' = [pre EXCEPT ![t] = NoPre]
    /\ paid' = [paid EXCEPT ![t] = <<>>]
    /\ result' = [result EXCEPT ![t] = NoResult]
    /\ UNCHANGED <<status, reservations, issued, arrived, lastPaymentFailed>>
    /\ UNCHANGED registry
    /\ UNCHANGED inner

\* the same, recording whether the call that ends is a check_out that failed payment
UnlockH(t) ==
    /\ pc[t] = "unlock"
    /\ lock' = 0
    /\ lastPaymentFailed' =
           IF call[t].op = "check_out" /\ result[t] = "Payment failed."
           THEN call[t].reservation_id
           ELSE 0
    /\ pc' = [pc EXCEPT ![t] = "idle"]
    /\ call' = [call EXCEPT ![t] = NoCall]
    /\ pre' = [pre EXCEPT ![t] = NoPre]
    /\ paid' = [paid EXCEPT ![t] = <<>>]
    /\ result' = [result EXCEPT ![t] = NoResult]
    /\ UNCHANGED <<status, reservations, issued, arrived>>
    /\ UNCHANGED registry
    /\ UNCHANGED inner

\* the same, for a thread that makes one call and keeps what it returned
UnlockOnce(t) ==
    /\ pc[t] = "unlock"
    /\ lock' = 0
    /\ pc' = [pc EXCEPT ![t] = "returned"]
    /\ pre' = [pre EXCEPT ![t] = NoPre]
    /\ UNCHANGED <<status, reservations, issued, arrived, lastPaymentFailed,
                   call, paid, result>>
    /\ UNCHANGED registry
    /\ UNCHANGED inner

\* -------------------------------------------------------- specifications
\* Guest.id and Room.id: a guest and a room of the model are named by their id.
\* A Room object beyond the NRooms of the pool is one constructed later, by
\* Room(id, ...), with the id of a Room of the pool.
guest_id(g) == g
room_id(r) == ((r - 1) % NRooms) + 1

\* the coordinator was constructed and the pool initialised: every guest and
\* every room was added, no room is booked
Init ==
    /\ instance = "hms"
    /\ attributes = Put(<<>>, "hms", AttrNames)
    /\ reservation_lock = [id \in ResIds |-> 0]
    /\ room_lock = [r \in Rooms |-> 0]
    /\ guests = [g \in Guests |-> g]
    /\ rooms = [r \in Rooms |-> r]
    /\ status = [r \in Rooms |-> "AVAILABLE"]
    /\ reservations = <<>>
    /\ lock = 0
    /\ issued = {}
    /\ arrived = {}
    /\ lastPaymentFailed = 0
    /\ pc = [t \in Threads |-> "idle"]
    /\ call = [t \in Threads |-> NoCall]
    /\ pre = [t \in Threads |-> NoPre]
    /\ paid = [t \in Threads |-> <<>>]
    /\ result = [t \in Threads |-> NoResult]

\* the statements of the four coordinator calls
Body(t) ==
    \/ \E g \in Guests, r \in Rooms, ci \in Dates, co \in Dates :
           book_room_call(t, g, r, ci, co)
    \/ book_room_check(t)
    \/ book_room_book(t)
    \/ book_room_index(t)
    \/ \E rid \in ResIds : cancel_reservation_call(t, rid)
    \/ cancel_get(t)
    \/ cancel_cancel(t)
    \/ cancel_del(t)
    \/ \E rid \in ResIds : check_in_call(t, rid)
    \/ check_in_get(t)
    \/ check_in_room(t)
    \/ \E rid \in ResIds, p \in BOOLEAN : check_out_call(t, rid, p)
    \/ check_out_get(t)
    \/ check_out_pay(t)
    \/ check_out_room(t)
    \/ check_out_del(t)

Next == \E t \in Threads : Body(t) \/ Unlock(t)

Spec == Init /\ [][Next]_vars

\* the same calls, with the history of failed payments recorded
NextH == \E t \in Threads : Body(t) \/ UnlockH(t)

SpecH == Init /\ [][NextH]_vars

\* N threads, each calling book_room once for the same room of the pool
RaceRoom == CHOOSE r \in Rooms : TRUE

NextRace ==
    \E t \in Threads :
        \/ \E g \in Guests, ci \in Dates, co \in Dates :
               book_room_call(t, g, RaceRoom, ci, co)
        \/ book_room_check(t)
        \/ book_room_book(t)
        \/ book_room_index(t)
        \/ UnlockOnce(t)

SpecRace == Init /\ [][NextRace]_vars

\* ---- the Room methods called directly by a thread. The whole body of each
\* method is inside `with self.lock` of the Room and touches only that Room's
\* status, so a call is one step; the thread then holds what the call gave
\* (NoErr or the message of the ValueError) until it returns to its caller.
RoomCall(t, op, r, out) ==
    /\ pc[t] = "idle"
    /\ status' = [status EXCEPT ![r] = out.status]
    /\ pc' = [pc EXCEPT ![t] = "room_done"]
    /\ call' = [call EXCEPT ![t] = [NoCall EXCEPT !.op = op, !.room = r]]
    /\ pre' = [pre EXCEPT ![t] = Snapshot]
    /\ result' = [result EXCEPT ![t] = out.err]
    /\ UNCHANGED <<reservations, lock, issued, arrived, lastPaymentFailed, paid>>
    /\ UNCHANGED registry
    /\ UNCHANGED inner

call_Room_book(t, r) == RoomCall(t, "Room.book", r, Room_book(status[r]))

call_Room_check_in(t, r) == RoomCall(t, "Room.check_in", r, Room_check_in(status[r]))

call_Room_check_out(t, r) == RoomCall(t, "Room.check_out", r, Room_check_out(status[r]))

Room_return(t) ==
    /\ pc[t] = "room_done"
    /\ pc' = [pc EXCEPT ![t] = "idle"]
    /\ call' = [call EXCEPT ![t] = NoCall]
    /\ pre' = [pre EXCEPT ![t] = NoPre]
    /\ result' = [result EXCEPT ![t] = NoResult]
    /\ UNCHANGED <<status, reservations, lock, issued, arrived, lastPaymentFailed, paid>>
    /\ UNCHANGED registry
    /\ UNCHANGED inner

NextRoom ==
    \E t \in Threads :
        \/ \E r \in Rooms : call_Room_book(t, r)
        \/ \E r \in Rooms : call_Room_check_in(t, r)
        \/ \E r \in Rooms : call_Room_check_out(t, r)
        \/ Room_return(t)

SpecRoom == Init /\ [][NextRoom]_vars

\* ---- construction and the registries
\* the module is loaded: no HotelManagementSystem was constructed yet, the Room
\* objects exist and are AVAILABLE
InitRegistry ==
    /\ instance = "None"
    /\ attributes = <<>>
    /\ reservation_lock = [id \in ResIds |-> 0]
    /\ room_lock = [r \in Rooms |-> 0]
    /\ guests = <<>>
    /\ rooms = <<>>
    /\ status = [r \in Rooms |-> "AVAILABLE"]
    /\ reservations = <<>>
    /\ lock = 0
    /\ issued = {}
    /\ arrived = {}
    /\ lastPaymentFailed = 0
    /\ pc = [t \in Threads |-> "idle"]
    /\ call = [t \in Threads |-> NoCall]
    /\ pre = [t \in Threads |-> NoPre]
    /\ paid = [t \in Threads |-> <<>>]
    /\ result = [t \in Threads |-> NoResult]

\* the caller of HotelManagementSystem() gets object `obj`
Constructed(t, obj) ==
    /\ pc[t] = "idle"
    /\ pc' = [pc EXCEPT ![t] = "constructed"]
    /\ call' = [call EXCEPT ![t] = [NoCall EXCEPT !.op = "HotelManagementSystem"]]
    /\ pre' = [pre EXCEPT ![t] = Snapshot]
    /\ result' = [result EXCEPT ![t] = obj]
    /\ UNCHANGED <<status, issued, arrived, lastPaymentFailed, paid>>
    /\ UNCHANGED <<reservation_lock, room_lock>>

\* a __new__ that builds the registries and the lock at every construction
HotelManagementSystem_new_always(t) ==
    /\ instance' = "hms"
    /\ attributes' = Put(attributes, "hms", AttrNames)
    /\ guests' = <<>>
    /\ rooms' = <<>>
    /\ reservations' = <<>>
    /\ lock' = 0
    /\ Constructed(t, "hms")

\* HotelManagementSystem.__new__, run by one thread without interruption
HotelManagementSystem_new(t) ==
    /\ IF instance = "None"
       THEN /\ instance' = "hms"
            /\ attributes' = Put(attributes, "hms", AttrNames)
            /\ guests' = <<>>
            /\ rooms' = <<>>
            /\ reservations' = <<>>
            /\ lock' = 0
       ELSE UNCHANGED <<instance, attributes, guests, rooms, reservations, lock>>
    /\ Constructed(t, instance')

\* the caller has taken the object it was given
HotelManagementSystem_return(t) ==
    /\ pc[t] = "constructed"
    /\ pc' = [pc EXCEPT ![t] = "idle"]
    /\ call' = [call EXCEPT ![t] = NoCall]
    /\ pre' = [pre EXCEPT ![t] = NoPre]
    /\ result' = [result EXCEPT ![t] = NoResult]
    /\ UNCHANGED <<status, reservations, lock, issued, arrived, lastPaymentFailed, paid>>
    /\ UNCHANGED registry
    /\ UNCHANGED inner

\* add_guest and add_room: one dict assignment each, no lock taken
add_guest(t, g) ==
    /\ pc[t] = "idle"
    /\ instance # "None"
    /\ guests' = Put(guests, guest_id(g), g)
    /\ UNCHANGED <<instance, rooms, status, reservations, lock, issued, arrived,
                   lastPaymentFailed, pc, call, pre, paid, result>>
    /\ UNCHANGED inner

add_room(t, r) ==
    /\ pc[t] = "idle"
    /\ instance # "None"
    /\ rooms' = Put(rooms, room_id(r), r)
    /\ UNCHANGED <<instance, guests, status, reservations, lock, issued, arrived,
                   lastPaymentFailed, pc, call, pre, paid, result>>
    /\ UNCHANGED inner

\* construction, registration and book_room by any thread; a method is called
\* on the object a construction returned. The dates play no part in
\* construction or registration: every book_room is for the days 1 to MaxDay.
NextRegistry ==
    \E t \in Threads :
        \/ HotelManagementSystem_new(t)
        \/ HotelManagementSystem_return(t)
        \/ \E g \in Guests : add_guest(t, g)
        \/ \E r \in Rooms : add_room(t, r)
        \/ \E g \in Guests, r \in Rooms :
               instance # "None" /\ book_room_call(t, g, r, 1, MaxDay)
        \/ book_room_check(t)
        \/ book_room_book(t)
        \/ book_room_index(t)
        \/ Unlock(t)

SpecRegistry == InitRegistry /\ [][NextRegistry]_vars

\* ---- N threads, each calling cancel_reservation once, for the one reservation
\* of the index or for an identity that was never issued. The run starts where a book_room and a check_in have left the
\* coordinator: some identity, any dates, the room OCCUPIED.
InitCancelRace ==
    /\ instance = "hms"
    /\ attributes = Put(<<>>, "hms", AttrNames)
    /\ reservation_lock = [id \in ResIds |-> 0]
    /\ room_lock = [r \in Rooms |-> 0]
    /\ guests = [g \in Guests |-> g]
    /\ rooms = [r \in Rooms |-> r]
    /\ status = [r \in Rooms |-> IF r = RaceRoom THEN "OCCUPIED" ELSE "AVAILABLE"]
    /\ \E id \in ResIds, g \in Guests, ci \in Dates, co \in Dates :
          /\ reservations = Put(<<>>, id, Reservation(g, RaceRoom, ci, co))
          /\ issued = {id}
          /\ arrived = {id}
    /\ lock = 0
    /\ lastPaymentFailed = 0
    /\ pc = [t \in Threads |-> "idle"]
    /\ call = [t \in Threads |-> NoCall]
    /\ pre = [t \in Threads |-> NoPre]
    /\ paid = [t \in Threads |-> <<>>]
    /\ result = [t \in Threads |-> NoResult]

NextCancelRace ==
    \E t \in Threads :
        \/ \E rid \in ResIds : cancel_reservation_call(t, rid)
        \/ cancel_get(t)
        \/ cancel_cancel(t)
        \/ cancel_del(t)
        \/ UnlockOnce(t)

SpecCancelRace == InitCancelRace /\ [][NextCancelRace]_vars

\* ---- the coordinator calls with the locks of the objects they call into.
\* Room.book, Room.check_in, Room.check_out run inside `with self.lock` of the
\* Room; Reservation.cancel runs inside `with self.lock` of the Reservation and
\* calls Room.check_out from there. A `with` block releases its lock when it is
\* left, by return or by exception.
MethodPcs == {"book_room_book", "check_in_room", "check_out_room", "cancel_cancel"}

\* the Room whose method the statement of thread t calls
MethodRoom(t) ==
    IF pc[t] = "book_room_book"
    THEN call[t].room
    ELSE reservations[call[t].reservation_id].room

\* thread t holds no lock of a Reservation or a Room
NestedFree(t) ==
    /\ \A id \in ResIds : reservation_lock[id] # t
    /\ \A r \in Rooms : room_lock[r] # t

LockStep ==
    UNCHANGED <<instance, attributes, guests, rooms, status, reservations, lock,
                issued, arrived, lastPaymentFailed, pc, call, pre, paid, result>>

\* Reservation.cancel, line 135: with self.lock
reservation_lock_acquire(t) ==
    /\ pc[t] = "cancel_cancel"
    /\ reservation_lock[call[t].reservation_id] = 0
    /\ reservation_lock' = [reservation_lock EXCEPT ![call[t].reservation_id] = t]
    /\ UNCHANGED room_lock
    /\ LockStep

\* lines 73, 81, 88: with self.lock of the Room; a Reservation.cancel gets
\* there only for a CONFIRMED reservation (lines 136-139)
room_lock_acquire(t) ==
    /\ pc[t] \in MethodPcs
    /\ pc[t] = "cancel_cancel" =>
          /\ reservation_lock[call[t].reservation_id] = t
          /\ reservations[call[t].reservation_id].status = "CONFIRMED"
    /\ room_lock[MethodRoom(t)] = 0
    /\ room_lock' = [room_lock EXCEPT ![MethodRoom(t)] = t]
    /\ UNCHANGED reservation_lock
    /\ LockStep

\* the body of the method, run by the thread that holds the locks it takes
method_body(t) ==
    /\ pc[t] \in MethodPcs
    /\ IF pc[t] = "cancel_cancel"
       THEN /\ reservation_lock[call[t].reservation_id] = t
            /\ reservations[call[t].reservation_id].status = "CONFIRMED" =>
                  room_lock[MethodRoom(t)] = t
       ELSE room_lock[MethodRoom(t)] = t
    /\ \/ book_room_book(t)
       \/ check_in_room(t)
       \/ check_out_room(t)
       \/ cancel_cancel(t)

\* a Room lock that is never released when the method raised
room_lock_release_on_return(t) ==
    /\ pc[t] \notin MethodPcs
    /\ ~(pc[t] = "unlock" /\ result[t] \notin {"None", "Reservation"})
    /\ \E r \in Rooms :
          /\ room_lock[r] = t
          /\ room_lock' = [room_lock EXCEPT ![r] = 0]
    /\ UNCHANGED reservation_lock
    /\ LockStep

\* leaving `with self.lock` of the Room, by return or by exception
room_lock_release(t) ==
    /\ pc[t] \notin MethodPcs
    /\ \E r \in Rooms :
          /\ room_lock[r] = t
          /\ room_lock' = [room_lock EXCEPT ![r] = 0]
    /\ UNCHANGED reservation_lock
    /\ LockStep

\* leaving `with self.lock` of the Reservation, after the Room's lock
reservation_lock_release(t) ==
    /\ pc[t] \notin MethodPcs
    /\ \A r \in Rooms : room_lock[r] # t
    /\ \E id \in ResIds :
          /\ reservation_lock[id] = t
          /\ reservation_lock' = [reservation_lock EXCEPT ![id] = 0]
    /\ UNCHANGED room_lock
    /\ LockStep

\* the statements of a call that follow the entry into `with self.lock` of the
\* coordinator, up to its release
Progress(t) ==
    \/ reservation_lock_acquire(t)
    \/ room_lock_acquire(t)
    \/ method_body(t)
    \/ room_lock_release(t)
    \/ reservation_lock_release(t)
    \/ /\ NestedFree(t)
       /\ \/ book_room_check(t)
          \/ book_room_index(t)
          \/ cancel_get(t)
          \/ cancel_del(t)
          \/ check_in_get(t)
          \/ check_out_get(t)
          \/ check_out_pay(t)
          \/ check_out_del(t)
          \/ Unlock(t)

\* the dates play no part in locking: every book_room is for the days 1 to
\* MaxDay
NextLocks ==
    \E t \in Threads :
        \/ \E g \in Guests, r \in Rooms : book_room_call(t, g, r, 1, MaxDay)
        \/ \E rid \in ResIds : cancel_reservation_call(t, rid)
        \/ \E rid \in ResIds : check_in_call(t, rid)
        \/ \E rid \in ResIds, p \in BOOLEAN : check_out_call(t, rid, p)
        \/ Progress(t)

\* a thread that is inside a call keeps running: the interpreter schedules
\* every runnable thread, and process_payment returns
SpecLocks ==
    Init /\ [][NextLocks]_vars /\ \A t \in Threads : WF_vars(Progress(t))

\* ---- HotelManagementSystem.__new__ statement by statement, called once by
\* every thread. No lock is taken in it: threads interleave between statements.
\* super().__new__(cls) makes a new object at every execution of line 170; the
\* object made by thread t is named object_of(t).
HmsObjects == <<"hms", "hms2", "hms3", "hms4">>

object_of(t) == HmsObjects[t]

NewStep(t, next) ==
    /\ pc' = [pc EXCEPT ![t] = next]
    /\ UNCHANGED <<guests, rooms, status, reservations, lock, reservation_lock,
                   room_lock, issued, arrived, lastPaymentFailed, pre, paid>>

\* cls._instance.<attr> = {} or Lock(): an assignment to the object that
\* cls._instance refers to when the statement runs
NewAssign(t, attr, next) ==
    /\ attributes' = [attributes EXCEPT ![instance] = @ \cup {attr}]
    /\ NewStep(t, next)
    /\ UNCHANGED <<instance, call, result>>

new_call(t) ==
    /\ pc[t] = "idle"
    /\ call' = [call EXCEPT ![t] = [NoCall EXCEPT !.op = "HotelManagementSystem"]]
    /\ NewStep(t, "new_test")
    /\ UNCHANGED <<instance, attributes, result>>

\* line 169
new_test(t) ==
    /\ pc[t] = "new_test"
    /\ NewStep(t, IF instance = "None" THEN "new_alloc" ELSE "new_return")
    /\ UNCHANGED <<instance, attributes, call, result>>

\* line 170
new_alloc(t) ==
    /\ pc[t] = "new_alloc"
    /\ instance' = object_of(t)
    /\ attributes' = Put(attributes, object_of(t), {})
    /\ NewStep(t, "new_guests")
    /\ UNCHANGED <<call, result>>

\* lines 171-174
new_guests(t) == pc[t] = "new_guests" /\ NewAssign(t, "guests", "new_rooms")

new_rooms(t) == pc[t] = "new_rooms" /\ NewAssign(t, "rooms", "new_reservations")

new_reservations(t) ==
    pc[t] = "new_reservations" /\ NewAssign(t, "reservations", "new_lock")

new_lock(t) == pc[t] = "new_lock" /\ NewAssign(t, "lock", "new_return")

\* line 176
new_return(t) ==
    /\ pc[t] = "new_return"
    /\ result' = [result EXCEPT ![t] = instance]
    /\ NewStep(t, "returned")
    /\ UNCHANGED <<instance, attributes, call>>

NextNewRace ==
    \E t \in Threads :
        \/ new_call(t)
        \/ new_test(t)
        \/ new_alloc(t)
        \/ new_guests(t)
        \/ new_rooms(t)
        \/ new_reservations(t)
        \/ new_lock(t)
        \/ new_return(t)

SpecNewRace == InitRegistry /\ [][NextNewRace]_vars

\* ---- the pool of rooms. Beside the Rooms of the pool there is one more Room
\* object, new and AVAILABLE, whose id is the id of a Room of the pool. A
\* caller books the Room it gets from get_room(id). The dates play no part:
\* every book_room is for the days 1 to MaxDay.
PoolRooms == 1 .. (NRooms + 1)

get_room(id) == rooms[id]

\* the coordinator was constructed, the guests were added, no room was added
InitPool ==
    /\ instance = "hms"
    /\ attributes = Put(<<>>, "hms", AttrNames)
    /\ reservation_lock = [id \in ResIds |-> 0]
    /\ room_lock = [r \in Rooms |-> 0]
    /\ guests = [g \in Guests |-> g]
    /\ rooms = <<>>
    /\ status = [r \in PoolRooms |-> "AVAILABLE"]
    /\ reservations = <<>>
    /\ lock = 0
    /\ issued = {}
    /\ arrived = {}
    /\ lastPaymentFailed = 0
    /\ pc = [t \in Threads |-> "idle"]
    /\ call = [t \in Threads |-> NoCall]
    /\ pre = [t \in Threads |-> NoPre]
    /\ paid = [t \in Threads |-> <<>>]
    /\ result = [t \in Threads |-> NoResult]

NextPool ==
    \E t \in Threads :
        \/ \E r \in PoolRooms : add_room(t, r)
        \/ \E g \in Guests, id \in DOMAIN rooms :
               book_room_call(t, g, get_room(id), 1, MaxDay)
        \/ book_room_check(t)
        \/ book_room_book(t)
        \/ book_room_index(t)
        \/ \E rid \in ResIds : check_in_call(t, rid)
        \/ check_in_get(t)
        \/ check_in_room(t)
        \/ Unlock(t)

SpecPool == InitPool /\ [][NextPool]_vars

\* the calls of Spec, with reservation identities drawn at random
NextCollide ==
    \E t \in Threads :
        \/ \E g \in Guests, r \in Rooms, ci \in Dates, co \in Dates :
               book_room_call(t, g, r, ci, co)
        \/ book_room_check(t)
        \/ book_room_book(t)
        \/ book_room_index_random(t)
        \/ \E rid \in ResIds : cancel_reservation_call(t, rid)
        \/ cancel_get(t)
        \/ cancel_cancel(t)
        \/ cancel_del(t)
        \/ \E rid \in ResIds : check_in_call(t, rid)
        \/ check_in_get(t)
        \/ check_in_room(t)
        \/ \E rid \in ResIds, p \in BOOLEAN : check_out_call(t, rid, p)
        \/ check_out_get(t)
        \/ check_out_pay(t)
        \/ check_out_room(t)
        \/ check_out_del(t)
        \/ Unlock(t)

SpecCollide == Init /\ [][NextCollide]_vars

\* ------------------------------------------------------------ the claims
\* thread t has run the body of a call of op and is about to leave it: the
\* rooms and the index are what the call leaves, pre[t] what it found
Ending(t, op) == pc[t] = "unlock" /\ call[t].op = op

\* the reservation the call of t names, as the call found it
PreIndexed(t) == call[t].reservation_id \in DOMAIN pre[t].reservations
PreRes(t) == pre[t].reservations[call[t].reservation_id]
PreConfirmed(t) == PreIndexed(t) /\ PreRes(t).status = "CONFIRMED"
PreRoomStatus(t) == pre[t].status[PreRes(t).room]

\* the call of t has left every room status, every reservation and the index
\* as it found them
Untouched(t) == status = pre[t].status /\ reservations = pre[t].reservations

\* no thread is inside a coordinator call
Quiescent == \A t \in Threads : pc[t] \in {"idle", "returned"}

\* the CONFIRMED reservations of the index that reference Room r
ConfirmedOn(r) ==
    {id \in DOMAIN reservations :
        reservations[id].room = r /\ reservations[id].status = "CONFIRMED"}

\* C1: in every reachable state, also inside a call, every Room is referenced
\* by at most one CONFIRMED Reservation of the coordinator's index.
C1_AtMostOneConfirmed ==
    \A r \in Rooms : Cardinality(ConfirmedOn(r)) <= 1

\* a room that was booked, released and booked again holds one CONFIRMED reservation
C1_Witness ==
    \E r \in Rooms : Cardinality(ConfirmedOn(r)) = 1 /\ Cardinality(issued) >= 2

\* C2: when every thread calls book_room once for the same AVAILABLE room, no
\* call raises, and once all have returned exactly one returned a Reservation,
\* the other NThreads - 1 returned None, the room is BOOKED and the index
\* holds exactly one reservation.
C2_OneWinner ==
    /\ \A t \in Threads : result[t] \in {NoResult, "Reservation", "None"}
    /\ (\A t \in Threads : pc[t] = "returned") =>
          /\ Cardinality({t \in Threads : result[t] = "Reservation"}) = 1
          /\ Cardinality({t \in Threads : result[t] = "None"}) = NThreads - 1
          /\ status[RaceRoom] = "BOOKED"
          /\ Cardinality(DOMAIN reservations) = 1

\* all the threads have returned from their book_room call for the same room
C2_Witness ==
    \A t \in Threads :
        pc[t] = "returned" /\ call[t].op = "book_room" /\ call[t].room = RaceRoom

\* C3: a cancel_reservation of a CONFIRMED indexed reservation (one a successful
\* book_room returned) leaves its room AVAILABLE and the reservation out of the
\* index, whether the room was BOOKED or OCCUPIED when cancel was called.
C3_BookCancelRoundTrip ==
    \A t \in Threads :
        (Ending(t, "cancel_reservation") /\ PreConfirmed(t)) =>
            /\ status[PreRes(t).room] = "AVAILABLE"
            /\ call[t].reservation_id \notin DOMAIN reservations

\* C4: a check_out whose payment fails leaves rooms, reservations and index as
\* it found them, and the check_out with a succeeding capability that follows
\* it on the same reservation id succeeds.
C4_PaymentFailureThenRetry ==
    \A t \in Threads :
        Ending(t, "check_out") =>
            /\ result[t] = "Payment failed." => Untouched(t)
            /\ (call[t].payment /\ lastPaymentFailed = call[t].reservation_id) =>
                   result[t] = "None"

\* C5: between calls, a room with no CONFIRMED reservation is AVAILABLE, a room
\* whose CONFIRMED reservation was not checked in is BOOKED, and a room whose
\* CONFIRMED reservation was checked in is OCCUPIED.
C5_StatusFollowsReservation ==
    Quiescent =>
        \A r \in Rooms :
            /\ ConfirmedOn(r) = {} => status[r] = "AVAILABLE"
            /\ \A id \in ConfirmedOn(r) :
                  status[r] = IF id \in arrived THEN "OCCUPIED" ELSE "BOOKED"

\* C6: between calls, every reservation of the coordinator's index is CONFIRMED
\* (the index is all the model keeps of the reservations, so this is the
\* direction of the equivalence that can fail).
C6_IndexedIffConfirmed ==
    Quiescent =>
        \A id \in DOMAIN reservations : reservations[id].status = "CONFIRMED"

\* C7: cancel_reservation of a CONFIRMED reservation whose room is OCCUPIED
\* sets the reservation CANCELLED and the room AVAILABLE, removes the
\* reservation from the index and returns without raising.
C7_CancelMidStay ==
    \A t \in Threads :
        (call[t].op = "cancel_reservation" /\ PreConfirmed(t)
            /\ PreRoomStatus(t) = "OCCUPIED") =>
            /\ pc[t] = "cancel_del" =>
                  /\ reservations[call[t].reservation_id].status = "CANCELLED"
                  /\ status[PreRes(t).room] = "AVAILABLE"
            /\ pc[t] = "unlock" =>
                  /\ result[t] = "None"
                  /\ status[PreRes(t).room] = "AVAILABLE"
                  /\ call[t].reservation_id \notin DOMAIN reservations

\* a cancel_reservation of a checked-in reservation is about to return
C7_Witness ==
    \E t \in Threads :
        /\ Ending(t, "cancel_reservation")
        /\ PreConfirmed(t)
        /\ PreRoomStatus(t) = "OCCUPIED"
        /\ call[t].reservation_id \in pre[t].arrived

\* C8: the first check_in of a CONFIRMED reservation (room BOOKED) returns
\* without raising and leaves the room OCCUPIED; a check_in of a reservation
\* that was already checked in raises, and leaves the room OCCUPIED and the
\* reservation CONFIRMED and indexed.
C8_CheckInTwice ==
    \A t \in Threads :
        (Ending(t, "check_in") /\ PreConfirmed(t)) =>
            LET rid == call[t].reservation_id
                r == PreRes(t).room
            IN /\ (rid \notin pre[t].arrived /\ PreRoomStatus(t) = "BOOKED") =>
                      /\ result[t] = "None"
                      /\ status[r] = "OCCUPIED"
               /\ rid \in pre[t].arrived =>
                      /\ result[t] = "Room is not booked."
                      /\ Untouched(t)
                      /\ status[r] = "OCCUPIED"
                      /\ rid \in DOMAIN reservations
                      /\ reservations[rid].status = "CONFIRMED"

\* a second check_in of the same reservation is about to raise
C8_Witness ==
    \E t \in Threads :
        /\ Ending(t, "check_in")
        /\ PreConfirmed(t)
        /\ call[t].reservation_id \in pre[t].arrived

\* C9: a check_out of a checked-in CONFIRMED reservation with a succeeding
\* capability calls process_payment exactly once, with room.price times the
\* days between check_in_date and check_out_date, sets the room AVAILABLE and
\* removes the reservation from the index; a check_in, check_out or cancel of
\* an issued id that is no longer indexed finds no reservation: it charges
\* nothing and changes nothing (check_in and check_out raise, cancel returns).
C9_CheckOutCompletes ==
    \A t \in Threads :
        /\ (Ending(t, "check_out") /\ PreConfirmed(t)
               /\ PreRoomStatus(t) = "OCCUPIED" /\ call[t].payment) =>
              /\ paid[t] = << price(PreRes(t).room)
                               * (PreRes(t).check_out_date - PreRes(t).check_in_date) >>
              /\ result[t] = "None"
              /\ status[PreRes(t).room] = "AVAILABLE"
              /\ call[t].reservation_id \notin DOMAIN reservations
        /\ (pc[t] = "unlock"
               /\ call[t].op \in {"check_in", "check_out", "cancel_reservation"}
               /\ call[t].reservation_id \in issued /\ ~PreIndexed(t)) =>
              /\ call[t].op \in {"check_in", "check_out"} =>
                    result[t] = "Invalid reservation or reservation not confirmed."
              /\ call[t].op = "cancel_reservation" => result[t] = "None"
              /\ paid[t] = <<>>
              /\ Untouched(t)

\* a paid check_out of a checked-in stay of at least one night is about to return
C9_Witness ==
    \E t \in Threads :
        /\ Ending(t, "check_out")
        /\ PreConfirmed(t)
        /\ PreRoomStatus(t) = "OCCUPIED"
        /\ call[t].payment
        /\ PreRes(t).check_out_date > PreRes(t).check_in_date

\* C10: book_room on a room that is BOOKED or OCCUPIED returns None without
\* raising and leaves every room status, every reservation and the index as
\* they were.
C10_BookBusyRoom ==
    \A t \in Threads :
        (Ending(t, "book_room") /\ pre[t].status[call[t].room] # "AVAILABLE") =>
            /\ result[t] = "None"
            /\ Untouched(t)

\* a book_room on an OCCUPIED room is about to return
C10_Witness ==
    \E t \in Threads :
        /\ Ending(t, "book_room")
        /\ pre[t].status[call[t].room] = "OCCUPIED"

\* C11: a cancel_reservation of an id that is not in the index (never issued,
\* already cancelled or already checked out) reports a failure to its caller:
\* it does not return as a successful cancel does.
C11_CancelUnknownFails ==
    \A t \in Threads :
        (Ending(t, "cancel_reservation") /\ ~PreIndexed(t)) => result[t] # "None"

\* C13: every reservation of the index has check_out_date > check_in_date, and
\* a book_room with check_in_date >= check_out_date returns no Reservation and
\* leaves the rooms and the index as they were.
C13_DatesOrdered ==
    /\ \A id \in DOMAIN reservations :
          reservations[id].check_out_date > reservations[id].check_in_date
    /\ \A t \in Threads :
          (Ending(t, "book_room") /\ call[t].check_in_date >= call[t].check_out_date) =>
              /\ result[t] # "Reservation"
              /\ Untouched(t)

\* thread t is inside the body of a coordinator call
InBody(t) == pc[t] \notin {"idle", "returned"}

\* the reservations that were CANCELLED when thread t entered its call
PreCancelled(t) ==
    {id \in DOMAIN pre[t].reservations : pre[t].reservations[id].status = "CANCELLED"}

\* C14: CANCELLED is terminal. At every statement of every call, a reservation
\* that was CANCELLED when the call began is still CANCELLED unless it left the
\* index; and a check_in or check_out of a CANCELLED reservation raises,
\* charges nothing and changes no room status.
C14_CancelledIsTerminal ==
    \A t \in Threads :
        /\ InBody(t) =>
              \A id \in PreCancelled(t) :
                  id \in DOMAIN reservations => reservations[id].status = "CANCELLED"
        /\ (pc[t] = "unlock" /\ call[t].op \in {"check_in", "check_out"}
               /\ call[t].reservation_id \in PreCancelled(t)) =>
              /\ result[t] = "Invalid reservation or reservation not confirmed."
              /\ paid[t] = <<>>
              /\ status = pre[t].status

\* a check_in of a CANCELLED reservation of the index is about to raise
C14_Witness ==
    \E t \in Threads :
        Ending(t, "check_in") /\ call[t].reservation_id \in PreCancelled(t)

\* C15: a thread inside the body of book_room, check_in, check_out or
\* cancel_reservation holds the coordinator lock and no other thread is inside
\* a body; when no thread is inside, the lock is free.
C15_OneThreadInside ==
    /\ \A t \in Threads :
          InBody(t) => (lock = t /\ \A u \in Threads \ {t} : ~InBody(u))
    /\ (\A t \in Threads : ~InBody(t)) => lock = 0

\* a thread is at the payment of a check_out while another thread is outside
C15_Witness ==
    \E t \in Threads, u \in Threads :
        t # u /\ pc[t] = "check_out_pay" /\ lock = t /\ pc[u] = "idle"

\* C18: a check_in or check_out of an id that is not in the index, or whose
\* reservation is not CONFIRMED, raises, leaves every room status, every
\* reservation and the index as they were, and never calls process_payment.
C18_InvalidReservationRejected ==
    \A t \in Threads :
        (pc[t] = "unlock" /\ call[t].op \in {"check_in", "check_out"}
            /\ ~PreConfirmed(t)) =>
            /\ result[t] = "Invalid reservation or reservation not confirmed."
            /\ Untouched(t)
            /\ paid[t] = <<>>

\* a check_out, with a capability that would succeed, of an indexed reservation
\* that is not CONFIRMED is about to raise
C18_Witness ==
    \E t \in Threads :
        /\ Ending(t, "check_out")
        /\ PreIndexed(t)
        /\ ~PreConfirmed(t)
        /\ call[t].payment

\* C12: the identity a successful book_room indexes and returns was never
\* issued before and is not a key of the index, so the step that indexes the new
\* reservation replaces no entry.
C12_FreshIdentity ==
    [][\A t \in Threads :
          (pc[t] = "book_room_index" /\ pc'[t] = "unlock") =>
              /\ call'[t].reservation_id \notin issued
              /\ call'[t].reservation_id \notin DOMAIN reservations]_vars

\* thread t runs the Room method op on Room r in this step
RoomStep(t, op, r) ==
    /\ pc[t] = "idle"
    /\ pc'[t] = "room_done"
    /\ call'[t].op = op
    /\ call'[t].room = r

\* the other Rooms keep their status in this step
OthersKeep(r) == \A q \in Rooms \ {r} : status'[q] = status[q]

\* C16: Room.book called on an AVAILABLE room returns and leaves it BOOKED, and
\* called on a room of any other status raises and leaves the status as it was;
\* Room.check_in called on a BOOKED room returns and leaves it OCCUPIED, and
\* called on a room of any other status raises and leaves the status as it was;
\* the only other change of a status is a release, which ends in AVAILABLE.
C16_BookAndCheckInGuarded ==
    [][/\ \A t \in Threads, r \in Rooms :
            /\ RoomStep(t, "Room.book", r) =>
                  /\ OthersKeep(r)
                  /\ IF status[r] = "AVAILABLE"
                     THEN status'[r] = "BOOKED" /\ result'[t] = NoErr
                     ELSE status'[r] = status[r]
                          /\ result'[t] = "Room is not available for booking."
            /\ RoomStep(t, "Room.check_in", r) =>
                  /\ OthersKeep(r)
                  /\ IF status[r] = "BOOKED"
                     THEN status'[r] = "OCCUPIED" /\ result'[t] = NoErr
                     ELSE status'[r] = status[r] /\ result'[t] = "Room is not booked."
       /\ \A r \in Rooms :
            status'[r] # status[r] =>
                \/ status[r] = "AVAILABLE" /\ status'[r] = "BOOKED"
                \/ status[r] = "BOOKED" /\ status'[r] = "OCCUPIED"
                \/ status'[r] = "AVAILABLE"]_vars

\* one thread's Room.check_in has moved a room to OCCUPIED and another thread's
\* Room.book on that room has raised
C16_Witness ==
    \E t \in Threads, u \in Threads :
        /\ pc[t] = "room_done" /\ call[t].op = "Room.check_in" /\ result[t] = NoErr
        /\ pc[u] = "room_done" /\ call[u].op = "Room.book"
        /\ call[u].room = call[t].room
        /\ result[u] = "Room is not available for booking."
        /\ status[call[t].room] = "OCCUPIED"

\* C17: Room.check_out called on a BOOKED or an OCCUPIED room returns and
\* leaves it AVAILABLE; called on an AVAILABLE room it raises and leaves it
\* AVAILABLE.
C17_ReleaseFromBookedOrOccupied ==
    [][\A t \in Threads, r \in Rooms :
          RoomStep(t, "Room.check_out", r) =>
              /\ status'[r] = "AVAILABLE"
              /\ (result'[t] = NoErr) <=> (status[r] \in {"BOOKED", "OCCUPIED"})]_vars

\* C19: a book_room for a Guest whose id is not a key of the guests registry,
\* or for a Room whose id is not a key of the rooms registry, returns no
\* Reservation and leaves every room status and the index as they were.
C19_BookUnregistered ==
    \A t \in Threads :
        (Ending(t, "book_room")
            /\ (guest_id(call[t].guest) \notin DOMAIN guests
                   \/ room_id(call[t].room) \notin DOMAIN rooms)) =>
            /\ result[t] # "Reservation"
            /\ Untouched(t)

\* C20: every construction gives its caller the one instance, and a
\* construction when the instance exists leaves the instance, the guests, the
\* rooms, the reservations and the lock as they were.
C20_SingleInstance ==
    [][\A t \in Threads :
          (pc[t] = "idle" /\ pc'[t] = "constructed") =>
              /\ result'[t] = "hms"
              /\ instance' = "hms"
              /\ instance # "None" =>
                    /\ guests' = guests
                    /\ rooms' = rooms
                    /\ reservations' = reservations
                    /\ lock' = lock]_vars

\* a thread has constructed again after a guest and a room were registered and
\* a reservation was indexed, and finds them all
C20_Witness ==
    \E t \in Threads :
        /\ pc[t] = "constructed"
        /\ result[t] = "hms"
        /\ DOMAIN pre[t].reservations # {}
        /\ DOMAIN guests # {}
        /\ DOMAIN rooms # {}
        /\ DOMAIN reservations # {}

\* the call of thread t ends in a failure: an exception, or the None of a
\* book_room that could not book
Failed(t) ==
    IF call[t].op = "book_room" THEN result[t] = "None" ELSE result[t] # "None"

\* C21: when the payment of a check_out succeeded, the call ends with the room
\* AVAILABLE and the reservation out of the index (so that no later check_out
\* can charge the reservation again), whatever the status of the room was,
\* BOOKED included.
C21_PaidThenReleased ==
    \A t \in Threads :
        (Ending(t, "check_out") /\ paid[t] # <<>> /\ call[t].payment) =>
            /\ status[PreRes(t).room] = "AVAILABLE"
            /\ call[t].reservation_id \notin DOMAIN reservations

\* C22: a call of book_room, check_in, check_out or cancel_reservation that
\* ends in a failure leaves every room status, every reservation and the index
\* as they were when the call began.
C22_FailureAtomicity ==
    \A t \in Threads : (pc[t] = "unlock" /\ Failed(t)) => Untouched(t)

\* C23: when a call ends, an entry of the index that the call found is gone or
\* differs only if the call is a cancel_reservation or a check_out of that id
\* that ends without failure.
C23_IndexFrame ==
    \A t \in Threads :
        pc[t] = "unlock" =>
            \A id \in DOMAIN pre[t].reservations :
                (id \notin DOMAIN reservations
                     \/ reservations[id] # pre[t].reservations[id]) =>
                    /\ call[t].op \in {"cancel_reservation", "check_out"}
                    /\ call[t].reservation_id = id
                    /\ ~Failed(t)

\* C27: every amount passed to process_payment is positive.
C27_AmountPositive ==
    \A t \in Threads : \A i \in DOMAIN paid[t] : paid[t][i] > 0

\* the statements of the four calls that read or write a Room's status:
\* line 193, and the calls of Room.book, Reservation.cancel (Room.check_out),
\* Room.check_in and Room.check_out
StatusPcs ==
    {"book_room_check", "book_room_book", "cancel_cancel", "check_in_room",
     "check_out_room"}

\* C24: a thread that is at a statement reading or writing a Room's status
\* holds the coordinator lock, and every step that changes a status is the
\* step of such a statement by the thread that holds the lock, which keeps it.
C24_StatusUnderLock ==
    [][/\ \A t \in Threads : pc[t] \in StatusPcs => lock = t
       /\ status' # status =>
             \E t \in Threads :
                 /\ lock = t
                 /\ lock' = t
                 /\ pc[t] \in StatusPcs
                 /\ pc'[t] # pc[t]
                 /\ \A u \in Threads \ {t} : pc'[u] = pc[u]]_vars

\* a thread is about to run Room.check_in while another thread is outside
C24_Witness ==
    \E t \in Threads, u \in Threads :
        t # u /\ pc[t] = "check_in_room" /\ lock = t /\ pc[u] = "idle"

\* thread t is in a check_out between the call of process_payment and the
\* return or raise of the check_out
FromPayment(t) ==
    /\ call[t].op = "check_out"
    /\ \/ pc[t] \in {"check_out_pay", "check_out_room", "check_out_del"}
       \/ pc[t] = "unlock" /\ paid[t] # <<>>

\* C25: from the call of process_payment to the end of the check_out the thread
\* holds the coordinator lock and no other thread is at any statement of a
\* book_room, check_in, check_out or cancel_reservation.
C25_PaymentInsideLock ==
    \A t \in Threads :
        FromPayment(t) => (lock = t /\ \A u \in Threads \ {t} : pc[u] = "idle")

\* a thread whose payment succeeded is about to release the room; another
\* thread is outside
C25_Witness ==
    \E t \in Threads, u \in Threads :
        /\ t # u
        /\ pc[t] = "check_out_room"
        /\ paid[t] # <<>>
        /\ lock = t
        /\ pc[u] = "idle"

\* the reservations of the index, as the call of t found it, that hold the
\* Room the call names
PreHolders(t) ==
    {id \in DOMAIN pre[t].reservations : pre[t].reservations[id].room = call[t].room}

\* C29: a reservation enters the index by a successful book_room and leaves it
\* by a successful check_out or cancel_reservation of its id; a book_room
\* returns a Reservation exactly when no reservation of the index holds the
\* room: it returns None as long as an earlier reservation of the room is
\* indexed, and succeeds once that reservation was checked out or cancelled.
C29_BusyUntilReleased ==
    \A t \in Threads :
        Ending(t, "book_room") =>
            /\ (result[t] = "Reservation") <=> (PreHolders(t) = {})
            /\ result[t] \in {"Reservation", "None"}

\* a book_room of a room that was booked and released before is about to
\* return a Reservation
C29_Witness ==
    \E t \in Threads :
        /\ Ending(t, "book_room")
        /\ result[t] = "Reservation"
        /\ Cardinality(issued) >= 2

\* C28: when every thread has called cancel_reservation for the same CONFIRMED
\* reservation of an OCCUPIED room and all the calls are over, exactly one call
\* has returned normally and the others have reported a failure; the room is
\* AVAILABLE and the reservation is out of the index.
C28_OneCancelWins ==
    (\A t \in Threads : pc[t] = "returned" /\ call[t].reservation_id \in issued) =>
        /\ Cardinality({t \in Threads : result[t] = "None"}) = 1
        /\ status[RaceRoom] = "AVAILABLE"
        /\ reservations = <<>>

\* a thread holds the lock of an object only inside a coordinator call, and
\* the lock of a Room of a cancel only inside the lock of the Reservation
LocksNested ==
    \A t \in Threads :
        /\ ~NestedFree(t) => lock = t
        /\ (pc[t] = "cancel_cancel" /\ \E r \in Rooms : room_lock[r] = t) =>
              reservation_lock[call[t].reservation_id] = t

\* a step takes the coordinator lock only for a thread that holds no lock, and
\* the lock of a Reservation only for a thread that holds no Room's lock
LockOrder ==
    \A t \in Threads :
        /\ (lock' = t /\ lock # t) => NestedFree(t)
        /\ \A id \in ResIds :
              (reservation_lock'[id] = t /\ reservation_lock[id] # t) =>
                  (lock = t /\ \A r \in Rooms : room_lock[r] # t)
        /\ \A r \in Rooms : (room_lock'[r] = t /\ room_lock[r] # t) => lock = t

\* C26: locks are taken in the order coordinator, Reservation, Room; every
\* call that has begun comes to its end, whether it returns or raises; and
\* when no thread is inside a call no lock is held.
C26_DeadlockFree ==
    /\ []LocksNested
    /\ [][LockOrder]_vars
    /\ [](Quiescent =>
             /\ lock = 0
             /\ \A id \in ResIds : reservation_lock[id] = 0
             /\ \A r \in Rooms : room_lock[r] = 0)
    /\ \A t \in Threads : InBody(t) ~> (pc[t] = "idle")

\* a thread in cancel_reservation holds the three locks
C26_Witness ==
    \E t \in Threads, id \in ResIds, r \in Rooms :
        /\ pc[t] = "cancel_cancel"
        /\ lock = t
        /\ reservation_lock[id] = t
        /\ room_lock[r] = t

\* the statements of __new__ that assign an attribute of the instance
AssignPcs == {"new_guests", "new_rooms", "new_reservations", "new_lock"}

\* C30: the threads that have constructed hold the same object; the object a
\* constructor returns has guests, rooms, reservations and lock assigned; and
\* no attribute of an object is assigned again once a constructor has
\* returned that object.
C30_ConcurrentConstruction ==
    [][/\ \A t \in Threads, u \in Threads :
            (pc'[t] = "returned" /\ pc'[u] = "returned") => result'[t] = result'[u]
       /\ \A t \in Threads :
            pc'[t] = "returned" => attributes'[result'[t]] = AttrNames
       /\ \A u \in Threads :
            (pc[u] \in AssignPcs /\ pc'[u] # pc[u]) =>
                ~ \E t \in Threads : pc[t] = "returned" /\ result[t] = instance]_vars

\* the CONFIRMED reservations of the index whose Room has the id `id`
ConfirmedOnId(id) ==
    {x \in DOMAIN reservations :
        room_id(reservations[x].room) = id /\ reservations[x].status = "CONFIRMED"}

\* C31: no step puts another Room in the place of a Room of the registry, and
\* no room id has two CONFIRMED reservations in the index.
C31_RoomNeverReplaced ==
    [][/\ \A id \in DOMAIN rooms : rooms'[id] = rooms[id]
       /\ \A id \in DOMAIN rooms' : Cardinality(ConfirmedOnId(id)') <= 1]_vars

====
